---- MODULE Spec2Model ----
(***************************************************************************)
(* Poplar: the hook registry (use/before/after/afterError, the listener    *)
(* tree) and the hook execution engine (execHooks, invokeMethodInContext)  *)
(* of lib/poplar.js.                                                       *)
(*                                                                         *)
(* Strings are sequences of one-character strings, so that building an     *)
(* event name ('before.' + methodMatch) and matching it (minimatch) are    *)
(* computed character by character.                                        *)
(***************************************************************************)
EXTENDS Integers, Sequences, FiniteSets, TLC

\* ------------------------------------------------------------------ bounds
\* Number of use()/before()/after()/afterError() calls explored by Spec.
MaxCalls == 3
\* Number of use()/before()/after()/afterError() calls explored by SpecInv.
MaxInvCalls == 4
\* Number of execHooks activations one run may create.
MaxClosures == 4
\* Calls of use, before, after and afterError under SpecGlob.
MaxGlobCalls == 3
\* Calls of use, before, after and afterError under SpecLive.
MaxLiveCalls == 3
\* Calls of Validate under SpecVal.
MaxValidateCalls == 2
\* Calls of use, before, after and afterError under SpecTwice.
MaxTwiceCalls == 2

\* ----------------------------------------------------------------- strings
DOT == "."
STAR == "*"
SLASH == "/"

\* The three hook types, as the characters the code concatenates.
Phases == <<"before", "after", "afterError">>
PhaseSet == {Phases[i] : i \in 1..Len(Phases)}

PhaseChars(type) ==
  CASE type = "before" -> <<"b", "e", "f", "o", "r", "e">>
    [] type = "after" -> <<"a", "f", "t", "e", "r">>
    [] type = "afterError" -> <<"a", "f", "t", "e", "r", "E", "r", "r", "o", "r">>

\* The hook type and the method match put together without the dot.
EventNameNoDot(type, methodMatch) == PhaseChars(type) \o methodMatch

\* 'before.' + methodMatch, and util.format('%s.%s', type, methodName)
EventName(type, methodMatch) == PhaseChars(type) \o <<DOT>> \o methodMatch

\* util.format('%s.%s', name, methodName)
FullName(name, methodName) == name \o <<DOT>> \o methodName

\* minimatch(f, p) for patterns made of literal characters and stars: a star
\* (and a run of stars inside a name, which minimatch reads as single stars)
\* matches any run of characters other than the path separator '/'.
RECURSIVE minimatch(_, _)
minimatch(f, p) ==
  IF p = <<>> THEN f = <<>>
  ELSE IF Head(p) = STAR
    THEN \/ minimatch(f, Tail(p))
         \/ (f # <<>> /\ Head(f) # SLASH /\ minimatch(Tail(f), p))
    ELSE f # <<>> /\ Head(f) = Head(p) /\ minimatch(Tail(f), Tail(p))

\* ------------------------------------------------------------------ inputs
\* Method collections (ApiBuilder objects) handed to use(): a name, the bare
\* names of the methods and the collection's own listeners (_events).
users == <<"u">>
posts == <<"p">>
login == <<"l">>
info == <<"i">>

Builders ==
  { [id |-> "users", name |-> users, methods |-> <<login, info>>,
     events |-> << [name |-> EventName("before", FullName(users, login)), fns |-> <<11>>] >>],
    [id |-> "users2", name |-> users, methods |-> <<info>>,
     events |-> << [name |-> EventName("after", FullName(users, <<STAR>>)), fns |-> <<12>>] >>],
    [id |-> "posts", name |-> posts, methods |-> <<login>>,
     events |-> << [name |-> EventName("after", FullName(posts, <<STAR>>)), fns |-> <<13, 14>>],
                   [name |-> EventName("before", FullName(users, login)), fns |-> <<15>>] >>] }

\* Globs handed to before()/after()/afterError() under Spec.
Globs == { FullName(users, <<STAR>>), <<STAR>> }
\* Globs handed to them under SpecGlob: the stars of the documented examples.
StarGlobs == { <<STAR>>, <<STAR, STAR>>, FullName(users, <<STAR>>) }
\* The builders handed to use() under SpecGlob.
StarBuilders == { b \in Builders : b.id \in {"users", "posts"} }
\* Globs handed to them under SpecInv.
InvGlobs == { FullName(users, login) }
\* The builders handed to use() under SpecInv.
InvBuilders == { b \in Builders : b.id = "users" }

\* Methods an adapter may dispatch, of a merged collection or not.
Dispatchable == { FullName(users, login), FullName(posts, login) }
\* Methods dispatched under SpecInv.
InvDispatchable == { FullName(users, login) }

VARIABLES
  apiBuilders,   \* this._apiBuilders: collection name -> id of the builder stored
  methods,       \* this._methods: the full names, in insertion order
  events,        \* this._events: <<[name, fns]>> in key insertion order
  listenerTree,  \* this._listenerTree: full name -> type -> <<event names>>
  callLog,       \* history: the use/before/after/afterError calls and whether each threw
  onLog,         \* history: the on(type, fn) calls made on the Poplar object, in order
  method,        \* the full name of the method being dispatched, <<>> before the dispatch
  closures,      \* the execHooks activations: type, stack (left, and as built), the
                 \* caller of next, the hooks called and not yet completed, the
                 \* calls of next
  callStack,     \* calls that run synchronously, innermost first
  eventLoop,     \* callbacks that run on a later turn of the event loop
  ctx,           \* the context object: its result and error slots
  log,           \* the hooks and the handler invoked, in order, with what each did
                 \* and the ctx.error each found
  cbCalls,       \* the argument of every call of the final callback cb
  accepts,       \* the rule list a caller hands to Validate, call after call
  validations    \* history: the Validate calls made, with what each gave

regVars == <<apiBuilders, methods, events, listenerTree, callLog, onLog>>
runVars == <<method, closures, callStack, eventLoop, ctx, log, cbCalls>>
valVars == <<accepts, validations>>
vars == <<apiBuilders, methods, events, listenerTree, callLog, onLog,
          method, closures, callStack, eventLoop, ctx, log, cbCalls,
          accepts, validations>>

\* ---------------------------------------------------------- the registry
Range(s) == { s[i] : i \in 1..Len(s) }

\* Object.keys(this._events)
EventNames(ev) == [i \in 1..Len(ev) |-> ev[i].name]

\* on that puts fn in front of the listeners of type.
onPrepend(ev, type, fn) ==
  IF \E i \in 1..Len(ev) : ev[i].name = type
    THEN [i \in 1..Len(ev) |->
            IF ev[i].name = type
              THEN [name |-> type, fns |-> <<fn>> \o ev[i].fns]
              ELSE ev[i]]
    ELSE Append(ev, [name |-> type, fns |-> <<fn>>])

\* EventEmitter on(type, fn): fn is added at the end of the listeners of
\* type; a type seen for the first time becomes the last key of _events.
on(ev, type, fn) ==
  IF \E i \in 1..Len(ev) : ev[i].name = type
    THEN [i \in 1..Len(ev) |->
            IF ev[i].name = type
              THEN [name |-> type, fns |-> Append(ev[i].fns, fn)]
              ELSE ev[i]]
    ELSE Append(ev, [name |-> type, fns |-> <<fn>>])

\* EventEmitter listeners(type)
listeners(ev, type) ==
  IF \E i \in 1..Len(ev) : ev[i].name = type
    THEN ev[CHOOSE i \in 1..Len(ev) : ev[i].name = type].fns
    ELSE <<>>

\* OnCalls that takes the first function of every type only.
RECURSIVE OnCallsFirstOnly(_)
OnCallsFirstOnly(emitterEvents) ==
  IF emitterEvents = <<>> THEN <<>>
  ELSE <<[name |-> Head(emitterEvents).name, fn |-> Head(emitterEvents).fns[1]]>>
       \o OnCallsFirstOnly(Tail(emitterEvents))

\* The on() calls mergeListeners makes for an emitter's _events: every type
\* in key order, every function of the type in order.
RECURSIVE OnCalls(_)
OnCalls(emitterEvents) ==
  IF emitterEvents = <<>> THEN <<>>
  ELSE [i \in 1..Len(Head(emitterEvents).fns) |->
          [name |-> Head(emitterEvents).name, fn |-> Head(emitterEvents).fns[i]]]
       \o OnCalls(Tail(emitterEvents))

RECURSIVE mergeListeners(_, _)
mergeListeners(ev, calls) ==
  IF calls = <<>> THEN ev
  ELSE mergeListeners(on(ev, Head(calls).name, Head(calls).fn), Tail(calls))

\* self._methods[name + '.' + methodName] = fn, for every method of the builder
RECURSIVE mergeMethods(_, _, _)
mergeMethods(ms, name, builderMethods) ==
  IF builderMethods = <<>> THEN ms
  ELSE LET full == FullName(name, Head(builderMethods))
       IN mergeMethods(IF full \in Range(ms) THEN ms ELSE Append(ms, full),
                       name, Tail(builderMethods))

\* searchListeners that looks at the hook type of a listener name only.
searchListenersByType(ev, methodName, type) ==
  LET prefix == PhaseChars(type) \o <<DOT>>
      Matches(name) == Len(name) >= Len(prefix) /\ SubSeq(name, 1, Len(prefix)) = prefix
  IN SelectSeq(EventNames(ev), Matches)

searchListeners(ev, methodName, type) ==
  LET fullType == EventName(type, methodName)
      Matches(name) == minimatch(fullType, name)
  IN SelectSeq(EventNames(ev), Matches)

searchListenerTree(tree, methodName, type) ==
  IF methodName \in DOMAIN tree THEN tree[methodName][type] ELSE <<>>

analyzeListenerTree(ms, ev) ==
  [name \in Range(ms) |-> [type \in PhaseSet |-> searchListeners(ev, name, type)]]

\* The stack execHooks builds for a method and a hook type.
RECURSIVE ConcatListeners(_, _)
ConcatListeners(ev, listenerNames) ==
  IF listenerNames = <<>> THEN <<>>
  ELSE listeners(ev, Head(listenerNames)) \o ConcatListeners(ev, Tail(listenerNames))

\* HookStack without the scan of the registry when the tree gives nothing.
HookStackNoFallback(tree, ev, methodName, when) ==
  ConcatListeners(ev, searchListenerTree(tree, methodName, when))

HookStack(tree, ev, methodName, when) ==
  LET cached == searchListenerTree(tree, methodName, when)
      listenerNames == IF cached = <<>> THEN searchListeners(ev, methodName, when)
                       ELSE cached
  IN ConcatListeners(ev, listenerNames)

HookCalls == SelectSeq(callLog, LAMBDA c : c.op # "use")

\* The function object handed to the k-th before/after/afterError call.
NewFn == Len(HookCalls) + 1

\* Registration is the configuration phase: it precedes every dispatch.
Configuring == method = <<>> /\ closures = <<>>

\* use without the look-up of this._apiBuilders[name]: a builder is merged
\* again under a name already merged.
UseNoCheck(bs, max) ==
  \E b \in bs :
    /\ Configuring
    /\ Len(callLog) < max
    /\ UNCHANGED runVars
    /\ UNCHANGED valVars
    /\ apiBuilders' = (b.name :> b.id) @@ apiBuilders
    /\ events' = mergeListeners(events, OnCalls(b.events))
    /\ onLog' = onLog \o OnCalls(b.events)
    /\ methods' = mergeMethods(methods, b.name, b.methods)
    /\ listenerTree' = analyzeListenerTree(methods', events')
    /\ callLog' = Append(callLog, [op |-> "use", arg |-> b.name, threw |-> FALSE])

\* use(builder)
Use(bs, max) ==
  \E b \in bs :
    /\ Configuring
    /\ Len(callLog) < max
    /\ UNCHANGED runVars
    /\ UNCHANGED valVars
    /\ IF b.name \notin DOMAIN apiBuilders
         THEN /\ apiBuilders' = (b.name :> b.id) @@ apiBuilders
              /\ events' = mergeListeners(events, OnCalls(b.events))
              /\ onLog' = onLog \o OnCalls(b.events)
              /\ methods' = mergeMethods(methods, b.name, b.methods)
              /\ listenerTree' = analyzeListenerTree(methods', events')
              /\ callLog' = Append(callLog, [op |-> "use", arg |-> b.name, threw |-> FALSE])
         ELSE \* assert(false, ...) throws before anything is touched
              /\ callLog' = Append(callLog, [op |-> "use", arg |-> b.name, threw |-> TRUE])
              /\ UNCHANGED <<apiBuilders, methods, events, listenerTree, onLog>>

\* A registration that leaves out this.analyzeListenerTree().
AddHookNoRebuild(type, methodMatch, fn) ==
  /\ events' = on(events, EventName(type, methodMatch), fn)
  /\ onLog' = Append(onLog, [name |-> EventName(type, methodMatch), fn |-> fn])
  /\ callLog' = Append(callLog, [op |-> type, arg |-> methodMatch, threw |-> FALSE])
  /\ UNCHANGED <<apiBuilders, methods, listenerTree>>
  /\ UNCHANGED runVars
  /\ UNCHANGED valVars

\* before(methodMatch, fn), after(methodMatch, fn), afterError(methodMatch, fn)
AddHook(type, methodMatch, fn) ==
  /\ events' = on(events, EventName(type, methodMatch), fn)
  /\ onLog' = Append(onLog, [name |-> EventName(type, methodMatch), fn |-> fn])
  /\ listenerTree' = analyzeListenerTree(methods, events')
  /\ callLog' = Append(callLog, [op |-> type, arg |-> methodMatch, threw |-> FALSE])
  /\ UNCHANGED <<apiBuilders, methods>>
  /\ UNCHANGED runVars
  /\ UNCHANGED valVars

Before(gs, max) ==
  \E methodMatch \in gs :
    /\ Configuring
    /\ Len(callLog) < max
    /\ AddHook("before", methodMatch, NewFn)

After(gs, max) ==
  \E methodMatch \in gs :
    /\ Configuring
    /\ Len(callLog) < max
    /\ AddHook("after", methodMatch, NewFn)

AfterError(gs, max) ==
  \E methodMatch \in gs :
    /\ Configuring
    /\ Len(callLog) < max
    /\ AddHook("afterError", methodMatch, NewFn)

RegInit ==
  /\ apiBuilders = <<>>
  /\ methods = <<>>
  /\ events = <<>>
  /\ listenerTree = <<>>
  /\ callLog = <<>>
  /\ onLog = <<>>

\* ------------------------------------------------- the execution engine
\* Error values: <<>> is "no error" (a falsy err), <<fn>> the error made by
\* hook function fn, HandlerErr the error the method handler calls back with.
NoErr == <<>>
HookErr(fn) == <<fn>>
HandlerErr == <<"handler">>

\* What a hook does when it is called with (ctx, next, method):
\*   next, nextErr            it calls its continuation before it returns
\*   nextLater, nextErrLater  it calls its continuation on a later turn
\*   resolve, reject          it returns a thenable that settles later
\*   throw                    it throws
Behaviours == {"next", "nextLater", "nextErr", "nextErrLater", "resolve", "reject", "throw"}
\* The behaviours of the hooks run under Spec.
RegBehaviours == {"next", "nextErr"}
\* What the method handler does with its callback: calls it with a result or
\* with an error, before it returns or on a later turn.
HandlerOutcomes == {"ok", "okLater", "err", "errLater"}
\* A hook that returns nothing (or a thenable that never settles) and never
\* calls its continuation, and a handler that never calls back.
LiveBehaviours == Behaviours \cup {"never"}
\* The behaviours of the hooks run under SpecTwice: beside the continuation
\* called once, a hook that calls its continuation before it returns and then
\* returns a thenable that settles later, or throws.
TwiceBehaviours == RegBehaviours \cup {"next+resolve", "next+reject", "next+throw"}
LiveOutcomes == HandlerOutcomes \cup {"never"}

Task(kind, c, at, err) == [kind |-> kind, c |-> c, at |-> at, err |-> err]

\* The run in progress, as one value.
Run ==
  [closures |-> closures, callStack |-> callStack, eventLoop |-> eventLoop,
   ctx |-> ctx, log |-> log, cbCalls |-> cbCalls]

\* cb(err)
cb(st, err) == [st EXCEPT !.cbCalls = Append(@, err)]

\* execHooks(when, method, ctx, next): builds the stack and calls execStack()
execHooks(st, m, when, caller, orig) ==
  LET closure == [when |-> when, caller |-> caller, orig |-> orig,
                  stack |-> HookStack(listenerTree, events, m, when),
                  all |-> HookStack(listenerTree, events, m, when),
                  at |-> 0, pending |-> {}, signals |-> <<>>]
      c == Len(st.closures) + 1
  IN [st EXCEPT !.closures = Append(@, closure),
                !.callStack = <<Task("execStack", c, 0, NoErr)>> \o @]

\* triggerErrorAndCallBack without ctx.error = err.
triggerErrorNoAttach(st, err) ==
  execHooks(st, method, "afterError", "invoke", err)

\* triggerErrorAndCallBack(err)
triggerErrorAndCallBack(st, err) ==
  execHooks([st EXCEPT !.ctx.error = err], method, "afterError", "invoke", err)

\* method.invoke(ctx, callback): the handler runs and calls back as h says
invoke(st, h) ==
  LET invoked == Len(SelectSeq(st.log, LAMBDA e : e.what = "method"))
      t == Task("handlerCb", 0, invoked, IF h \in {"err", "errLater"} THEN HandlerErr ELSE NoErr)
      logged == [st EXCEPT !.log = Append(@, [what |-> "method", when |-> "", fn |-> 0,
                                              c |-> 0, at |-> 0, b |-> h,
                                              error |-> st.ctx.error])]
  IN CASE h \in {"ok", "err"} -> [logged EXCEPT !.callStack = <<t>> \o @]
       [] h \in {"okLater", "errLater"} -> [logged EXCEPT !.eventLoop = @ \cup {t}]
       [] h = "never" -> logged

\* handlerCallback with a handler error routed through the afterError hooks.
handlerCallbackViaAfterError(st, err) ==
  LET stored == [st EXCEPT !.ctx.result = IF err = NoErr THEN "result" ELSE "undefined"]
  IN IF err # NoErr THEN triggerErrorAndCallBack(stored, err)
     ELSE execHooks(stored, method, "after", "invoke", NoErr)

\* function(err, result) { ctx.result = result; ... }: the handler's callback
handlerCallback(st, err) ==
  LET stored == [st EXCEPT !.ctx.result = IF err = NoErr THEN "result" ELSE "undefined"]
  IN IF err # NoErr THEN cb(stored, err)
     ELSE execHooks(stored, method, "after", "invoke", NoErr)

\* callNext with the return of "if (err) return triggerErrorAndCallBack(err)"
\* lost in the after continuation: cb() runs as well.
callNextNoReturn(st, c, err, h) ==
  LET cl == st.closures[c]
      s1 == [st EXCEPT !.closures[c].signals = Append(@, err)]
  IN IF cl.caller = "standalone" THEN s1
     ELSE CASE cl.when = "before" ->
                 IF err # NoErr THEN triggerErrorAndCallBack(s1, err) ELSE invoke(s1, h)
            [] cl.when = "after" ->
                 IF err # NoErr THEN cb(triggerErrorAndCallBack(s1, err), NoErr)
                 ELSE cb(s1, NoErr)
            [] cl.when = "afterError" ->
                 cb(s1, IF err # NoErr THEN err ELSE cl.orig)

\* callNext with cb(hookErr) in place of cb(hookErr || err).
callNextDropsOriginal(st, c, err, h) ==
  LET cl == st.closures[c]
      s1 == [st EXCEPT !.closures[c].signals = Append(@, err)]
  IN IF cl.caller = "standalone" THEN s1
     ELSE CASE cl.when = "before" ->
                 IF err # NoErr THEN triggerErrorAndCallBack(s1, err) ELSE invoke(s1, h)
            [] cl.when = "after" ->
                 IF err # NoErr THEN triggerErrorAndCallBack(s1, err) ELSE cb(s1, NoErr)
            [] cl.when = "afterError" ->
                 cb(s1, err)

\* The next handed to execHooks by its caller, called with err by closure c.
callNext(st, c, err, h) ==
  LET cl == st.closures[c]
      s1 == [st EXCEPT !.closures[c].signals = Append(@, err)]
  IN IF cl.caller = "standalone" THEN s1
     ELSE CASE cl.when = "before" ->
                 IF err # NoErr THEN triggerErrorAndCallBack(s1, err) ELSE invoke(s1, h)
            [] cl.when = "after" ->
                 IF err # NoErr THEN triggerErrorAndCallBack(s1, err) ELSE cb(s1, NoErr)
            [] cl.when = "afterError" ->
                 cb(s1, IF err # NoErr THEN err ELSE cl.orig)

\* afterCall that does not wait for a thenable: execStack goes on at once.
afterCallNoAwait(c, at, fn, b) ==
  CASE b = "next" -> [now |-> <<Task("execStack", c, at, NoErr)>>, later |-> {}]
    [] b = "nextErr" -> [now |-> <<Task("execStack", c, at, HookErr(fn))>>, later |-> {}]
    [] b = "nextLater" -> [now |-> <<>>, later |-> {Task("execStack", c, at, NoErr)}]
    [] b = "nextErrLater" -> [now |-> <<>>, later |-> {Task("execStack", c, at, HookErr(fn))}]
    [] b = "resolve" -> [now |-> <<Task("execStack", c, 0, NoErr)>>,
                         later |-> {Task("then", c, at, NoErr)}]
    [] b = "reject" -> [now |-> <<Task("execStack", c, 0, NoErr)>>,
                        later |-> {Task("then", c, at, HookErr(fn))}]
    [] b = "throw" -> [now |-> <<Task("catch", c, at, HookErr(fn))>>, later |-> {}]
    [] b = "never" -> [now |-> <<>>, later |-> {}]
    [] b = "next+resolve" -> [now |-> <<Task("execStack", c, at, NoErr)>>,
                              later |-> {Task("then", c, at, NoErr)}]
    [] b = "next+reject" -> [now |-> <<Task("execStack", c, at, NoErr)>>,
                             later |-> {Task("then", c, at, HookErr(fn))}]
    [] b = "next+throw" -> [now |-> <<Task("execStack", c, at, NoErr),
                                      Task("catch", c, at, HookErr(fn))>>, later |-> {}]

\* try { result = cur.call(method, ctx, execStack, method); if thenable
\* result.then(function() { next(); }, next) } catch (err) { next(err) }:
\* the calls that follow from hook fn, at position at of closure c, behaving as b.
afterCall(c, at, fn, b) ==
  CASE b = "next" -> [now |-> <<Task("execStack", c, at, NoErr)>>, later |-> {}]
    [] b = "nextErr" -> [now |-> <<Task("execStack", c, at, HookErr(fn))>>, later |-> {}]
    [] b = "nextLater" -> [now |-> <<>>, later |-> {Task("execStack", c, at, NoErr)}]
    [] b = "nextErrLater" -> [now |-> <<>>, later |-> {Task("execStack", c, at, HookErr(fn))}]
    [] b = "resolve" -> [now |-> <<>>, later |-> {Task("then", c, at, NoErr)}]
    [] b = "reject" -> [now |-> <<>>, later |-> {Task("then", c, at, HookErr(fn))}]
    [] b = "throw" -> [now |-> <<Task("catch", c, at, HookErr(fn))>>, later |-> {}]
    [] b = "never" -> [now |-> <<>>, later |-> {}]
    [] b = "next+resolve" -> [now |-> <<Task("execStack", c, at, NoErr)>>,
                              later |-> {Task("then", c, at, NoErr)}]
    [] b = "next+reject" -> [now |-> <<Task("execStack", c, at, NoErr)>>,
                             later |-> {Task("then", c, at, HookErr(fn))}]
    [] b = "next+throw" -> [now |-> <<Task("execStack", c, at, NoErr),
                                      Task("catch", c, at, HookErr(fn))>>, later |-> {}]

\* The hook at position at of closure c has signalled completion.
Completed(st, c, at) == [st EXCEPT !.closures[c].pending = @ \ {at}]

\* execStack with the return of "if (err) return next(err)" lost: the stack
\* goes on after next(err).
execStackNoReturn(st, c, at, err, b, h) ==
  LET s0 == Completed(st, c, at)
      s1 == IF err # NoErr THEN callNext(s0, c, err, h) ELSE s0
      cl == s1.closures[c]
  IN IF cl.stack # <<>>
       THEN LET cur == Head(cl.stack)
                pos == cl.at + 1
                calls == afterCall(c, pos, cur, b)
            IN [s1 EXCEPT !.closures[c].stack = Tail(@),
                          !.closures[c].at = pos,
                          !.closures[c].pending = @ \cup {pos},
                          !.log = Append(@, [what |-> "hook", when |-> cl.when, fn |-> cur,
                                             c |-> c, at |-> pos, b |-> b,
                                             error |-> s1.ctx.error]),
                          !.callStack = calls.now \o @,
                          !.eventLoop = @ \cup calls.later]
       ELSE callNext(s1, c, NoErr, h)

\* execStack without the next() of an exhausted stack.
execStackNoFinalNext(st, c, at, err, b, h) ==
  LET s0 == Completed(st, c, at)
      cl == s0.closures[c]
  IN IF err # NoErr THEN callNext(s0, c, err, h)
     ELSE IF cl.stack # <<>>
       THEN LET cur == Head(cl.stack)
                pos == cl.at + 1
                calls == afterCall(c, pos, cur, b)
            IN [s0 EXCEPT !.closures[c].stack = Tail(@),
                          !.closures[c].at = pos,
                          !.closures[c].pending = @ \cup {pos},
                          !.log = Append(@, [what |-> "hook", when |-> cl.when, fn |-> cur,
                                             c |-> c, at |-> pos, b |-> b,
                                             error |-> s0.ctx.error]),
                          !.callStack = calls.now \o @,
                          !.eventLoop = @ \cup calls.later]
       ELSE s0

\* execStack(err), called by the hook at position at (0: by execHooks itself)
execStack(st, c, at, err, b, h) ==
  LET s0 == Completed(st, c, at)
      cl == s0.closures[c]
  IN IF err # NoErr THEN callNext(s0, c, err, h)
     ELSE IF cl.stack # <<>>
       THEN LET cur == Head(cl.stack)
                pos == cl.at + 1
                calls == afterCall(c, pos, cur, b)
            IN [s0 EXCEPT !.closures[c].stack = Tail(@),
                          !.closures[c].at = pos,
                          !.closures[c].pending = @ \cup {pos},
                          !.log = Append(@, [what |-> "hook", when |-> cl.when, fn |-> cur,
                                             c |-> c, at |-> pos, b |-> b,
                                             error |-> s0.ctx.error]),
                          !.callStack = calls.now \o @,
                          !.eventLoop = @ \cup calls.later]
       ELSE callNext(s0, c, NoErr, h)

\* result.then(function() { next(); }, next): the thenable has settled
thenSettled(st, c, at, err, h) == callNext(Completed(st, c, at), c, err, h)

\* catch (err) { next(err); }
catchThrown(st, c, at, err, h) == callNext(Completed(st, c, at), c, err, h)

\* The calls that can run now: the innermost synchronous call, or, when no
\* call is in progress, any callback of the event loop.
Runnable == IF callStack # <<>> THEN {Head(callStack)} ELSE eventLoop

\* The run once task t has been taken up.
Taken(t) ==
  IF callStack # <<>> THEN [Run EXCEPT !.callStack = Tail(@)]
  ELSE [Run EXCEPT !.eventLoop = @ \ {t}]

Becomes(st) ==
  /\ Len(st.closures) <= MaxClosures
  /\ closures' = st.closures
  /\ callStack' = st.callStack
  /\ eventLoop' = st.eventLoop
  /\ ctx' = st.ctx
  /\ log' = st.log
  /\ cbCalls' = st.cbCalls
  /\ UNCHANGED regVars
  /\ UNCHANGED valVars
  /\ UNCHANGED method

\* poplar.execHooks(when, method, ctx, next), called on its own
ExecHooks(ms) ==
  \E m \in ms, when \in PhaseSet :
    /\ Configuring
    /\ method' = m
    /\ LET st == execHooks(Run, m, when, "standalone", NoErr)
       IN /\ closures' = st.closures
          /\ callStack' = st.callStack
    /\ UNCHANGED <<eventLoop, ctx, log, cbCalls>>
    /\ UNCHANGED regVars
    /\ UNCHANGED valVars

\* poplar.invokeMethodInContext(method, ctx, cb)
InvokeMethodInContext(ms) ==
  \E m \in ms :
    /\ Configuring
    /\ method' = m
    /\ LET st == execHooks(Run, m, "before", "invoke", NoErr)
       IN /\ closures' = st.closures
          /\ callStack' = st.callStack
    /\ UNCHANGED <<eventLoop, ctx, log, cbCalls>>
    /\ UNCHANGED regVars
    /\ UNCHANGED valVars

\* The inputs a call reads: a hook's behaviour when it calls a hook, the
\* handler's outcome when it invokes the handler.
HookInputs(t, bs) ==
  IF t.err = NoErr /\ closures[t.c].stack # <<>> THEN bs ELSE {"next"}

HandlerInputs(t, hs) ==
  IF /\ closures[t.c].caller = "invoke"
     /\ closures[t.c].when = "before"
     /\ t.err = NoErr
     /\ t.kind = "execStack" => closures[t.c].stack = <<>>
    THEN hs ELSE {"ok"}

RunExecStack(bs, hs) ==
  \E t \in Runnable :
    /\ t.kind = "execStack"
    /\ \E b \in HookInputs(t, bs), h \in HandlerInputs(t, hs) :
         Becomes(execStack(Taken(t), t.c, t.at, t.err, b, h))

RunThen(hs) ==
  \E t \in Runnable :
    /\ t.kind = "then"
    /\ \E h \in HandlerInputs(t, hs) : Becomes(thenSettled(Taken(t), t.c, t.at, t.err, h))

RunCatch(hs) ==
  \E t \in Runnable :
    /\ t.kind = "catch"
    /\ \E h \in HandlerInputs(t, hs) : Becomes(catchThrown(Taken(t), t.c, t.at, t.err, h))

RunHandlerCallback ==
  \E t \in Runnable :
    /\ t.kind = "handlerCb"
    /\ Becomes(handlerCallback(Taken(t), t.err))

RunInit ==
  /\ method = <<>>
  /\ closures = <<>>
  /\ callStack = <<>>
  /\ eventLoop = {}
  /\ ctx = [result |-> "undefined", error |-> NoErr]
  /\ log = <<>>
  /\ cbCalls = <<>>

\* ------------------------------------------------------------ validation
\* Messages are sequences of strings; NoMessage is undefined (a spec without
\* a message, a function that returns nothing), JsTrue the value true.
NoMessage == <<>>
JsTrue == <<"#true">>

\* msg.toString()
toString(msg) == IF msg = JsTrue THEN <<"true">> ELSE msg

\* Parameter values: an absent parameter, the empty string, a string the
\* library validators accept, one they reject, and a value they throw on.
Values == {"undefined", "", "good", "bad", "odd"}

\* helper.isEmpty(val)
isEmpty(val) == val \in {"undefined", ""}

\* The validators the validator library defines, and what one does with a
\* value: it returns true or false, or it throws.
LibraryValidators == {"isEmail"}
libraryApply(validatorName, val) ==
  CASE val = "good" -> "true"
    [] val = "odd" -> "throws"
    [] OTHER -> "false"

\* A validator spec of accept.validates: an object with or without a message
\* ("opts"), true, false, or a function ("fn") that returns a message,
\* returns true, returns nothing or throws.
Opts(message) == [kind |-> "opts", message |-> message, does |-> ""]
Fn(does, message) == [kind |-> "fn", message |-> message, does |-> does]
SpecTrue == [kind |-> "true", message |-> NoMessage, does |-> ""]
SpecFalse == [kind |-> "false", message |-> NoMessage, does |-> ""]
V(validatorName, spec) == [validatorName |-> validatorName, spec |-> spec]

\* ValidationError.prototype.defaultMessage
defaultMessage(name, validatorName) ==
  <<name, ": '", validatorName, "' validation failed">>

\* add that starts a new object for the parameter on every call.
addFreshObject(errors, name, validatorName, msg) ==
  LET m == IF msg # NoMessage THEN msg ELSE defaultMessage(name, validatorName)
      entry == [name |-> name, obj |-> <<[validatorName |-> validatorName, msg |-> m]>>]
      at == {i \in 1..Len(errors) : errors[i].name = name}
  IN IF at = {} THEN Append(errors, entry)
     ELSE [errors EXCEPT ![CHOOSE i \in at : TRUE] = entry]

\* ValidationError.prototype.add: _errors is <<[name, obj]>> and obj is
\* <<[validatorName, msg]>>, both in key insertion order.
add(errors, name, validatorName, msg) ==
  LET m == IF msg # NoMessage THEN msg ELSE defaultMessage(name, validatorName)
      at == {i \in 1..Len(errors) : errors[i].name = name}
      obj == IF at = {} THEN <<>> ELSE errors[CHOOSE i \in at : TRUE].obj
      key == {j \in 1..Len(obj) : obj[j].validatorName = validatorName}
      set == IF key = {} THEN Append(obj, [validatorName |-> validatorName, msg |-> m])
             ELSE [obj EXCEPT ![CHOOSE j \in key : TRUE].msg = m]
  IN IF at = {} THEN Append(errors, [name |-> name, obj |-> set])
     ELSE [errors EXCEPT ![CHOOSE i \in at : TRUE].obj = set]

\* ValidationError.prototype.flatten
RECURSIVE flatten(_)
flatten(errors) ==
  IF errors = <<>> THEN <<>>
  ELSE LET name == Head(errors).name
           obj == Head(errors).obj
       IN [j \in 1..Len(obj) |->
             IF toString(obj[j].msg) # <<>> THEN toString(obj[j].msg)
             ELSE defaultMessage(name, obj[j].validatorName)]
          \o flatten(Tail(errors))

\* ValidationError.prototype.asJSON
asJSON(errors) == errors

\* ValidationError.prototype.any
any(errors) == errors # <<>>

\* try { result = fn(val, params); if (result) add(name, validatorName, result) }
\* catch (e) { debug(...) }
callFunction(v, name, validatorName, spec) ==
  LET result == CASE spec.does = "returns" -> spec.message
                  [] spec.does = "true" -> JsTrue
                  [] OTHER -> NoMessage
      called == [v EXCEPT !.evaluated = Append(@, <<name, validatorName>>)]
  IN IF spec.does # "throws" /\ result # NoMessage
       THEN [called EXCEPT !.errors = add(@, name, validatorName, result)]
       ELSE called

\* The branch of an empty value: the required spec, if there is one.
checkRequired(v, name, validators) ==
  LET at == {i \in 1..Len(validators) : validators[i].validatorName = "required"}
      required == validators[CHOOSE i \in at : TRUE].spec
  IN IF at = {} THEN v
     ELSE IF required.kind = "fn" THEN callFunction(v, name, "required", required)
     ELSE IF required.kind # "false"
       THEN [v EXCEPT !.errors = add(@, name, "required", required.message),
                      !.evaluated = Append(@, <<name, "required">>)]
       ELSE v

\* The validators of a non-empty value with the required spec left in.
keepRequired(validators) == validators

\* delete validators['required']
deleteRequired(validators) ==
  SelectSeq(validators, LAMBDA e : e.validatorName # "required")

\* The function handed to _.each(validators, ...) for a non-empty value. A
\* falsy spec has become {} (validatorOpts = validatorOpts || {}) before it is
\* looked at, so its validator is applied as one without a message is.
applyValidator(v, name, val, e) ==
  IF e.spec.kind = "fn" THEN callFunction(v, name, e.validatorName, e.spec)
  ELSE IF e.validatorName \in LibraryValidators
    THEN LET applied == [v EXCEPT !.evaluated = Append(@, <<name, e.validatorName>>)]
             outcome == libraryApply(e.validatorName, val)
         IN CASE outcome = "throws" -> [applied EXCEPT !.threw = TRUE]
              [] outcome = "false" ->
                   [applied EXCEPT !.errors = add(@, name, e.validatorName, e.spec.message)]
              [] outcome = "true" -> applied
    ELSE v

\* _.each(validators, ...): an exception leaves the iteration.
RECURSIVE eachValidator(_, _, _, _)
eachValidator(v, name, val, validators) ==
  IF validators = <<>> \/ v.threw THEN v
  ELSE eachValidator(applyValidator(v, name, val, Head(validators)),
                     name, val, Tail(validators))

\* validateAccept that goes through the other validators of an empty value
\* as well.
validateAcceptAlways(v, params, accept) ==
  LET name == accept.arg
      val == params[name]
      validators == accept.validates
  IN eachValidator(IF isEmpty(val) THEN checkRequired(v, name, validators) ELSE v,
                   name, val, deleteRequired(validators))

\* The function handed to _.each(accepts, ...): validators is a copy of
\* accept.validates.
validateAccept(v, params, accept) ==
  LET name == accept.arg
      val == params[name]
      validators == accept.validates
  IN IF isEmpty(val) THEN checkRequired(v, name, validators)
     ELSE eachValidator(v, name, val, deleteRequired(validators))

RECURSIVE eachAccept(_, _, _)
eachAccept(v, params, rules) ==
  IF rules = <<>> \/ v.threw THEN v
  ELSE eachAccept(validateAccept(v, params, Head(rules)), params, Tail(rules))

\* Validate that deletes the required spec from accept.validates itself.
ValidateOnTheRules(params, rules) ==
  LET v == eachAccept([errors |-> <<>>, threw |-> FALSE, evaluated |-> <<>>],
                      params, rules)
  IN [params |-> params, errors |-> v.errors, threw |-> v.threw,
      evaluated |-> v.evaluated,
      accepts |-> [i \in 1..Len(rules) |->
                     [rules[i] EXCEPT !.validates = deleteRequired(@)]]]

\* Validate(params, accepts): the ValidationError it returns, or that it
\* threw; the validators it evaluated; the rule list as it leaves it.
Validate(params, rules) ==
  LET v == eachAccept([errors |-> <<>>, threw |-> FALSE, evaluated |-> <<>>],
                      params, rules)
  IN [params |-> params, errors |-> v.errors, threw |-> v.threw,
      evaluated |-> v.evaluated, accepts |-> rules]

\* The validates objects of the rules, and the rule lists: one rule for
\* every accepted parameter.
EmailValidates ==
  { << V("required", Opts(<<"email is required">>)) >>,
    << V("required", SpecTrue) >>,
    << V("required", Fn("returns", <<"no email">>)), V("isEmail", SpecTrue) >>,
    << V("required", Fn("throws", NoMessage)), V("isEmail", SpecFalse) >>,
    << V("required", SpecFalse), V("isLong", Fn("true", NoMessage)) >>,
    << V("isEmail", Opts(NoMessage)), V("isLong", Fn("returns", <<"too short">>)),
       V("required", Opts(NoMessage)) >>,
    << V("isLong", Fn("throws", NoMessage)), V("isEmail", Opts(<<"not a valid email">>)) >>,
    << V("isFoo", Opts(<<"not foo">>)), V("isLong", Fn("falsy", NoMessage)),
       V("required", Fn("returns", <<"no email">>)) >> }

NameValidates ==
  { << V("required", Opts(<<"name is required">>)) >>,
    << V("isEmail", Opts(<<"not a valid name">>)) >>,
    << V("isLong", Fn("returns", <<"too short">>)), V("required", Fn("falsy", NoMessage)) >> }

Rule(arg, validates) == [arg |-> arg, validates |-> validates]

RuleLists ==
  { <<Rule("email", e)>> : e \in EmailValidates }
  \cup { <<Rule("name", n)>> : n \in NameValidates }
  \cup { <<Rule("email", e), Rule("name", n)>> : e \in EmailValidates, n \in NameValidates }
  \cup { <<Rule("name", n), Rule("email", e)>> : e \in EmailValidates, n \in NameValidates }

\* The parameter bags handed to Validate.
ParamBags ==
  { [email |-> e, name |-> n] : e \in Values, n \in {"undefined", "good", "bad"} }

\* A caller calls Validate(params, accepts) with its rule list.
CallValidate(ps, max) ==
  \E params \in ps :
    /\ Len(validations) < max
    /\ LET r == Validate(params, accepts)
       IN /\ validations' = Append(validations, [params |-> r.params, errors |-> r.errors,
                                                  threw |-> r.threw, evaluated |-> r.evaluated])
          /\ accepts' = r.accepts
    /\ UNCHANGED regVars
    /\ UNCHANGED runVars

\* No Validate call was made.
ValInit ==
  /\ accepts = <<>>
  /\ validations = <<>>

Init == RegInit /\ RunInit /\ ValInit

\* The registry under every glob and builder, and execHooks called on its own.
Next ==
  \/ Use(Builders, MaxCalls)
  \/ Before(Globs, MaxCalls)
  \/ After(Globs, MaxCalls)
  \/ AfterError(Globs, MaxCalls)
  \/ ExecHooks(Dispatchable)
  \/ RunExecStack(RegBehaviours, HandlerOutcomes)

Spec == Init /\ [][Next]_vars

\* One dispatch through invokeMethodInContext, under every hook behaviour.
NextInv ==
  \/ Use(InvBuilders, MaxInvCalls)
  \/ Before(InvGlobs, MaxInvCalls)
  \/ After(InvGlobs, MaxInvCalls)
  \/ AfterError(InvGlobs, MaxInvCalls)
  \/ InvokeMethodInContext(InvDispatchable)
  \/ RunExecStack(Behaviours, HandlerOutcomes)
  \/ RunThen(HandlerOutcomes)
  \/ RunCatch(HandlerOutcomes)
  \/ RunHandlerCallback

SpecInv == Init /\ [][NextInv]_vars

\* The star globs of the documentation, and execHooks called on its own.
NextGlob ==
  \/ Use(StarBuilders, MaxGlobCalls)
  \/ Before(StarGlobs, MaxGlobCalls)
  \/ After(StarGlobs, MaxGlobCalls)
  \/ AfterError(StarGlobs, MaxGlobCalls)
  \/ ExecHooks(Dispatchable)
  \/ RunExecStack(RegBehaviours, HandlerOutcomes)

SpecGlob == Init /\ [][NextGlob]_vars

\* One dispatch where a hook or the handler may never signal completion. The
\* calls on the call stack run to completion and the event loop delivers every
\* timer and every settled thenable: the steps of a dispatch are weakly fair.
RunLive ==
  \/ RunExecStack(LiveBehaviours, LiveOutcomes)
  \/ RunThen(LiveOutcomes)
  \/ RunCatch(LiveOutcomes)
  \/ RunHandlerCallback

NextLive ==
  \/ Use(InvBuilders, MaxLiveCalls)
  \/ Before(InvGlobs, MaxLiveCalls)
  \/ After(InvGlobs, MaxLiveCalls)
  \/ AfterError(InvGlobs, MaxLiveCalls)
  \/ InvokeMethodInContext(InvDispatchable)
  \/ RunLive

SpecLive == Init /\ [][NextLive]_vars /\ WF_vars(RunLive)

\* One dispatch where a hook may signal completion twice.
NextTwice ==
  \/ Use(InvBuilders, MaxTwiceCalls)
  \/ Before(InvGlobs, MaxTwiceCalls)
  \/ After(InvGlobs, MaxTwiceCalls)
  \/ AfterError(InvGlobs, MaxTwiceCalls)
  \/ InvokeMethodInContext(InvDispatchable)
  \/ RunExecStack(TwiceBehaviours, HandlerOutcomes)
  \/ RunThen(HandlerOutcomes)
  \/ RunCatch(HandlerOutcomes)
  \/ RunHandlerCallback

SpecTwice == Init /\ [][NextTwice]_vars

\* Validate called on every parameter bag with a rule list of the caller.
InitVal ==
  /\ RegInit
  /\ RunInit
  /\ accepts \in RuleLists
  /\ validations = <<>>

NextVal == CallValidate(ParamBags, MaxValidateCalls)

SpecVal == InitVal /\ [][NextVal]_vars

\* ------------------------------------------------------------ the claims
Finished == method # <<>> /\ callStack = <<>> /\ eventLoop = {}
Dispatching == closures # <<>> /\ closures[1].caller = "invoke"
Aborts == {"nextErr", "nextErrLater", "reject", "throw"}
Pending == Range(callStack) \cup eventLoop
ClosuresOf(when) == { c \in 1..Len(closures) : closures[c].when = when }
HookEntries(c) == SelectSeq(log, LAMBDA e : e.what = "hook" /\ e.c = c)
FnsOf(entries) == [i \in 1..Len(entries) |-> entries[i].fn]

\* C1: in every dispatch through invokeMethodInContext, whatever the hooks
\* (continuation with or without error, thenable resolved or rejected, throw)
\* and the handler (success or error) do, cb is never called a second time,
\* and once nothing is left to run it has been called exactly once.
C1_CallbackExactlyOnce ==
  Dispatching =>
    /\ Len(cbCalls) <= 1
    /\ Finished => Len(cbCalls) = 1

\* A dispatch that went through before hooks, handler, failing after hooks and
\* afterError hooks, and has called back.
C1_Witness ==
  /\ Dispatching /\ Finished
  /\ Len(closures) = 3
  /\ Len(cbCalls) = 1 /\ cbCalls[1] # NoErr
  /\ \E i \in 1..Len(log) : log[i].b = "throw"

\* C2: the handler is invoked only after every before hook matching the
\* method has been invoked and has completed without error, no after hook is
\* invoked before the handler has called back successfully, and the log is
\* before hooks, handler, after hooks, afterError hooks, in this order.
C2_PhasesStrictlyOrdered ==
  Dispatching =>
    LET Rank(e) == CASE e.what = "method" -> 2
                     [] e.when = "before" -> 1
                     [] e.when = "after" -> 3
                     [] e.when = "afterError" -> 4
    IN /\ \A i \in 1..Len(log) :
            log[i].what = "method" =>
              /\ FnsOf(SelectSeq(SubSeq(log, 1, i - 1), LAMBDA e : e.when = "before"))
                   = closures[1].all
              /\ \A k \in 1..(i - 1) : log[k].b \notin Aborts
       /\ \A j \in 1..Len(log) :
            (log[j].what = "hook" /\ log[j].when = "after") =>
              /\ \E i \in 1..(j - 1) : log[i].what = "method" /\ log[i].b \in {"ok", "okLater"}
              /\ ctx.result = "result"
       /\ \A i, j \in 1..Len(log) : i < j => Rank(log[i]) <= Rank(log[j])

\* C3: the afterError hook chain is executed if and only if the before chain
\* or the after chain signalled an error; when the handler calls back with an
\* error, no afterError hook and no after hook is run and cb receives the
\* handler's error.
HandlerFailed ==
  /\ \E i \in 1..Len(log) : log[i].what = "method" /\ log[i].b \in {"err", "errLater"}
  /\ \A t \in Pending : t.kind # "handlerCb"

ChainFailed ==
  \E c \in ClosuresOf("before") \cup ClosuresOf("after") :
    \E k \in 1..Len(closures[c].signals) : closures[c].signals[k] # NoErr

C4_AfterErrorPrecedence ==
  Dispatching =>
    \A c \in ClosuresOf("afterError") :
      LET cl == closures[c]
      IN /\ c > 1
         /\ cl.orig # NoErr
         /\ closures[c - 1].signals = <<cl.orig>>
         /\ cl.signals # <<>> =>
              /\ cbCalls = <<IF cl.signals[1] # NoErr THEN cl.signals[1] ELSE cl.orig>>
              /\ cbCalls[1] # NoErr

\* An after hook failed, the afterError hooks signalled no error and cb
\* received the after hook's error.
C4_Witness ==
  /\ Dispatching
  /\ \E c \in ClosuresOf("afterError") :
       /\ closures[c - 1].when = "after"
       /\ closures[c].all # <<>>
       /\ closures[c].signals = <<NoErr>>
       /\ cbCalls = <<closures[c].orig>>

\* C5: once a hook aborts (continuation called with an error, throw, rejected
\* thenable), no later hook of the stack is invoked and the phase signals
\* that hook's error, once, to its caller.
C5_AbortStopsStack ==
  \A i \in 1..Len(log) :
    (log[i].what = "hook" /\ log[i].b \in Aborts) =>
      LET cl == closures[log[i].c]
      IN /\ cl.at = log[i].at
         /\ cl.stack = SubSeq(cl.all, log[i].at + 1, Len(cl.all))
         /\ IF log[i].at \in cl.pending THEN cl.signals = <<>>
            ELSE cl.signals = <<HookErr(log[i].fn)>>

\* The first of several before hooks rejected its thenable; the phase has
\* signalled the error and the hooks behind it are still on the stack.
C5_Witness ==
  \E i \in 1..Len(log) :
    /\ log[i].b = "reject"
    /\ closures[log[i].c].stack # <<>>
    /\ closures[log[i].c].signals = <<HookErr(log[i].fn)>>
    /\ Finished

\* C6: for a stack in which no hook aborts, every hook of the stack has been
\* invoked exactly once, in order, by the time the phase signals success,
\* whether a hook completes by its continuation or by a thenable.
C6_WholeStackBeforeSuccess ==
  \A c \in 1..Len(closures) :
    ( /\ \E k \in 1..Len(closures[c].signals) : closures[c].signals[k] = NoErr
      /\ \A i \in 1..Len(log) : log[i].c = c => log[i].b \notin Aborts )
    => /\ closures[c].stack = <<>>
       /\ FnsOf(HookEntries(c)) = closures[c].all

\* C7: within one execHooks call at most one hook is in progress (called and
\* not yet completed) at any time.
C7_OneHookAtATime ==
  \A c \in 1..Len(closures) : Cardinality(closures[c].pending) <= 1

\* A hook has returned a thenable that is not settled yet; the hooks behind
\* it wait on the stack and nothing else runs.
C7_Witness ==
  \E c \in 1..Len(closures) :
    /\ Cardinality(closures[c].pending) = 1
    /\ closures[c].stack # <<>>
    /\ callStack = <<>>
    /\ \E t \in eventLoop : t.kind = "then" /\ t.c = c

\* The event names of the on() calls, each once, in the order of its first call.
RECURSIVE FirstRegistered(_, _)
FirstRegistered(calls, seen) ==
  IF calls = <<>> THEN <<>>
  ELSE IF Head(calls).name \in seen THEN FirstRegistered(Tail(calls), seen)
  ELSE <<Head(calls).name>> \o FirstRegistered(Tail(calls), seen \cup {Head(calls).name})

\* The functions registered under an event name, in the order of the calls.
RegisteredUnder(name) == FnsOf(SelectSeq(onLog, LAMBDA call : call.name = name))

RECURSIVE ConcatRegistered(_)
ConcatRegistered(names) ==
  IF names = <<>> THEN <<>>
  ELSE RegisteredUnder(Head(names)) \o ConcatRegistered(Tail(names))

MatchingPatterns(m, when) ==
  SelectSeq(FirstRegistered(onLog, {}), LAMBDA name : minimatch(EventName(when, m), name))

\* C8: the stack execHooks runs for a method and a phase is the concatenation,
\* over the matching patterns in the order in which they were first
\* registered, of each pattern's functions in registration order, and the
\* hooks are called in the order of the stack.
C8_StackInRegistrationOrder ==
  \A c \in 1..Len(closures) :
    /\ closures[c].all = ConcatRegistered(MatchingPatterns(method, closures[c].when))
    /\ FnsOf(HookEntries(c)) = SubSeq(closures[c].all, 1, closures[c].at)

\* execHooks has run a stack of three hooks or more that come from two
\* patterns, one of which holds two of them.
C8_Witness ==
  /\ Finished
  /\ Len(closures) = 1
  /\ Len(closures[1].all) >= 3
  /\ Len(MatchingPatterns(method, closures[1].when)) = 2
  /\ \E i \in 1..2 :
       Len(RegisteredUnder(MatchingPatterns(method, closures[1].when)[i])) >= 2
  /\ FnsOf(HookEntries(1)) = closures[1].all

\* C9: after any sequence of use(), before(), after() and afterError() calls,
\* the listener tree has an entry for exactly the methods of the registry
\* and, for every such method and phase, the entry is the list of registered
\* patterns matching "<phase>.<method>" that a scan of the registry gives.
C9_TreeMatchesRegistry ==
  /\ DOMAIN listenerTree = Range(methods)
  /\ \A m \in Range(methods), type \in PhaseSet :
       searchListenerTree(listenerTree, m, type) = searchListeners(events, m, type)

\* A hook was registered after the merge of the collection of a method it
\* matches, and the tree lists its pattern behind one registered earlier.
C9_Witness ==
  /\ Len(callLog) >= 2
  /\ callLog[Len(callLog)].op = "before"
  /\ \E m \in Range(methods) :
       /\ Len(listenerTree[m]["before"]) = 2
       /\ listenerTree[m]["before"][2] = EventName("before", callLog[Len(callLog)].arg)

\* C10: a use() call with a collection name already merged throws and leaves
\* the collection map, the method registry, the listener registry and the
\* listener tree as they were; a use() call that does not throw has a name
\* not merged before.
C10_DuplicateUseThrows ==
  [][ (Len(callLog') = Len(callLog) + 1 /\ callLog'[Len(callLog')].op = "use") =>
        LET call == callLog'[Len(callLog')]
        IN IF call.arg \in DOMAIN apiBuilders
             THEN /\ call.threw
                  /\ UNCHANGED <<apiBuilders, methods, events, listenerTree>>
             ELSE ~call.threw /\ call.arg \in DOMAIN apiBuilders' ]_vars

\* use() has thrown for a second builder of a name already merged, with the
\* first builder's methods and listeners in place.
C10_Witness ==
  /\ callLog # <<>>
  /\ callLog[Len(callLog)].op = "use" /\ callLog[Len(callLog)].threw
  /\ users \in DOMAIN apiBuilders /\ apiBuilders[users] = "users2"
  /\ FullName(users, login) \notin Range(methods)
  /\ events # <<>>

\* C11: a hook registered with before('users.*', fn) is in the stack of the
\* before phase of users.login, and is called when the phase runs (no hook
\* ahead of it aborting); it is not in the stack of the before phase of
\* posts.login and is not called there.
UsersStar == EventName("before", FullName(users, <<STAR>>))

C11_UsersStarHook ==
  \A c \in 1..Len(closures), k \in 1..Len(onLog) :
    (closures[c].when = "before" /\ onLog[k].name = UsersStar) =>
      LET fn == onLog[k].fn
          called == Range(FnsOf(HookEntries(c)))
      IN /\ method = FullName(users, login) =>
              /\ fn \in Range(closures[c].all)
              /\ (Finished /\ \A i \in 1..Len(log) : log[i].b \notin Aborts) => fn \in called
         /\ method = FullName(posts, login) =>
              /\ fn \notin Range(closures[c].all)
              /\ fn \notin called

\* The before phase of users.login has run a hook registered with
\* before('users.*', fn), with both collections merged.
C11_Witness ==
  /\ Finished
  /\ method = FullName(users, login)
  /\ DOMAIN apiBuilders = {users, posts}
  /\ closures[1].when = "before"
  /\ \E k \in 1..Len(onLog) :
       /\ onLog[k].name = UsersStar
       /\ onLog[k].fn \in Range(FnsOf(HookEntries(1)))

\* C14: whenever an afterError hook is called, ctx.error holds the error that
\* triggered the afterError chain (the error the before or after chain
\* signalled).
C14_ErrorSlotSet ==
  \A i \in 1..Len(log) :
    (log[i].what = "hook" /\ log[i].when = "afterError") =>
      /\ log[i].error # NoErr
      /\ log[i].error = closures[log[i].c].orig
      /\ closures[log[i].c - 1].signals = <<log[i].error>>

\* The second afterError hook is called after a failure of the after chain.
C14_Witness ==
  \E i \in 1..Len(log) :
    /\ log[i].when = "afterError" /\ log[i].at = 2
    /\ closures[log[i].c - 1].when = "after"
    /\ log[i].error = ctx.error

\* C18: for a method with no entry in the listener tree, searchListenerTree
\* gives the empty list, and for every method, in the tree or not, the stack
\* execHooks builds is the one a scan of the listener registry gives.
C18_StackEqualsLiveScan ==
  \A c \in 1..Len(closures) :
    /\ closures[c].all = ConcatListeners(events, searchListeners(events, method, closures[c].when))
    /\ method \notin Range(methods) =>
         searchListenerTree(listenerTree, method, closures[c].when) = <<>>

\* execHooks has run two hooks or more for a method the tree does not know,
\* while the tree knows other methods.
C18_Witness ==
  /\ Finished
  /\ methods # <<>>
  /\ method \notin Range(methods)
  /\ Len(closures[1].all) >= 2
  /\ FnsOf(HookEntries(1)) = closures[1].all

\* C19: a use() call that does not throw adds every function of the
\* collection's listeners to the listeners of the same name, once, in the
\* collection's order, behind the functions already there; names and
\* functions already registered keep their place.
BuilderOf(id) == CHOOSE b \in Builders : b.id = id
BuilderFns(b, name) ==
  IF \E i \in 1..Len(b.events) : b.events[i].name = name
    THEN b.events[CHOOSE i \in 1..Len(b.events) : b.events[i].name = name].fns
    ELSE <<>>

C19_UseAppendsListeners ==
  [][ ( /\ Len(callLog') = Len(callLog) + 1
        /\ callLog'[Len(callLog')].op = "use"
        /\ ~callLog'[Len(callLog')].threw ) =>
        LET b == BuilderOf(apiBuilders'[callLog'[Len(callLog')].arg])
            old == Len(events)
            added == SelectSeq([i \in 1..Len(b.events) |-> b.events[i].name],
                               LAMBDA name : name \notin Range(EventNames(events)))
        IN /\ Len(events') = old + Len(added)
           /\ \A i \in 1..old :
                /\ events'[i].name = events[i].name
                /\ events'[i].fns = events[i].fns \o BuilderFns(b, events[i].name)
           /\ \A i \in 1..Len(added) :
                /\ events'[old + i].name = added[i]
                /\ events'[old + i].fns = BuilderFns(b, added[i]) ]_vars

\* The posts collection was merged after the users collection: its two
\* functions of one name and its function of a name users had registered.
C19_Witness ==
  /\ callLog # <<>>
  /\ callLog[Len(callLog)] = [op |-> "use", arg |-> posts, threw |-> FALSE]
  /\ listeners(events, EventName("before", FullName(users, login))) = <<11, 15>>
  /\ listeners(events, EventName("after", FullName(posts, <<STAR>>))) = <<13, 14>>

\* C12: the matcher keeps a single star inside one dot-separated segment, so
\* a hook registered with glob '*' is not in the stack of users.login, while
\* a hook registered with glob '**' is in the stack of every method.
C12_StarStaysInSegment ==
  \A c \in 1..Len(closures), k \in 1..Len(onLog) :
    (onLog[k].name = EventName(closures[c].when, <<STAR>>)
       => onLog[k].fn \notin Range(closures[c].all))
    /\ (onLog[k].name = EventName(closures[c].when, <<STAR, STAR>>)
       => onLog[k].fn \in Range(closures[c].all))

\* C13: a phase executed for a method holds and calls only functions that
\* were registered through the registration call of that phase.
C13_PhasesIsolated ==
  \A c \in 1..Len(closures) :
    \A fn \in Range(closures[c].all) \cup Range(FnsOf(HookEntries(c))) :
      fn \in 1..Len(HookCalls) => HookCalls[fn].op = closures[c].when

\* With an after hook and an afterError hook registered under stars, the
\* afterError phase has run its one hook.
C13_Witness ==
  /\ Finished
  /\ \E i, j \in 1..Len(HookCalls) :
       /\ HookCalls[i] = [op |-> "after", arg |-> <<STAR>>, threw |-> FALSE]
       /\ HookCalls[j].op = "afterError"
       /\ closures[1].when = "afterError"
       /\ FnsOf(HookEntries(1)) = <<j>>

\* C20: a dispatch through invokeMethodInContext leads to a call of the
\* final callback, unless a hook that was called or the handler never signals
\* completion.
Stalled == \E i \in 1..Len(log) : log[i].b = "never"

C20_InvocationTerminates == Dispatching ~> (cbCalls # <<>> \/ Stalled)

\* The final callback was called after a hook that continued on a later turn,
\* a hook whose thenable settled and a handler that called back later.
C20_Witness ==
  /\ Dispatching
  /\ ~Stalled
  /\ cbCalls # <<>>
  /\ \E i, j, k \in 1..Len(log) :
       /\ log[i].b \in {"nextLater", "nextErrLater"}
       /\ log[j].b \in {"resolve", "reject"}
       /\ log[k].b = "okLater"

\* What the rules say of a parameter bag: validator e of rule accept reports
\* a failure, and the message that failure carries.
Reports(spec) == spec.kind = "fn" /\ spec.does \in {"returns", "true"}

FailsOn(params, accept, e) ==
  IF isEmpty(params[accept.arg])
    THEN /\ e.validatorName = "required"
         /\ Reports(e.spec) \/ e.spec.kind \in {"opts", "true"}
    ELSE /\ e.validatorName # "required"
         /\ \/ Reports(e.spec)
            \/ /\ e.spec.kind # "fn"
               /\ e.validatorName \in LibraryValidators
               /\ libraryApply(e.validatorName, params[accept.arg]) = "false"

MessageOrDefault(accept, e) ==
  IF e.spec.message # NoMessage THEN e.spec.message
  ELSE defaultMessage(accept.arg, e.validatorName)

MessageOf(accept, e) ==
  IF e.spec.kind = "fn" /\ e.spec.does = "true" THEN <<"true">>
  ELSE MessageOrDefault(accept, e)

EntriesOf(errors, name) == SelectSeq(errors, LAMBDA entry : entry.name = name)

OnlyRequired(accept) ==
  /\ Len(accept.validates) = 1
  /\ accept.validates[1].validatorName = "required"
  /\ accept.validates[1].spec.kind \in {"opts", "true"}

RequiredRecorded(errors, name) ==
  \E i \in 1..Len(errors) :
    /\ errors[i].name = name
    /\ \E j \in 1..Len(errors[i].obj) : errors[i].obj[j].validatorName = "required"

\* C15 as stated: a rule whose only validator is a truthy required spec that
\* is not a function gives, for an empty value, one entry for the parameter,
\* under key required, carrying the message of the spec; a non-empty value
\* never gets an entry under key required.
C15_RequiredCarriesSpecMessage ==
  \A k \in 1..Len(validations), i \in 1..Len(accepts) :
    LET r == validations[k]
        accept == accepts[i]
        required == accept.validates[1]
    IN ~r.threw =>
         /\ (isEmpty(r.params[accept.arg]) /\ OnlyRequired(accept)) =>
              /\ EntriesOf(r.errors, accept.arg) =
                   << [name |-> accept.arg,
                       obj |-> << [validatorName |-> "required",
                                   msg |-> required.spec.message] >>] >>
              /\ any(r.errors)
              /\ Len(accepts) = 1 => flatten(r.errors) = << required.spec.message >>
         /\ ~isEmpty(r.params[accept.arg]) => ~RequiredRecorded(r.errors, accept.arg)

\* C15: a rule whose only validator is a truthy required spec that is not a
\* function gives, for an empty value, one entry for the parameter, under key
\* required, carrying the message of the spec, or the default message when
\* the spec has no message; a non-empty value never gets an entry under key
\* required, whatever the other validators report.
C15_RequiredOnlyWhenEmpty ==
  \A k \in 1..Len(validations), i \in 1..Len(accepts) :
    LET r == validations[k]
        accept == accepts[i]
        required == accept.validates[1]
    IN ~r.threw =>
         /\ (isEmpty(r.params[accept.arg]) /\ OnlyRequired(accept)) =>
              /\ EntriesOf(r.errors, accept.arg) =
                   << [name |-> accept.arg,
                       obj |-> << [validatorName |-> "required",
                                   msg |-> MessageOrDefault(accept, required)] >>] >>
              /\ any(r.errors)
              /\ Len(accepts) = 1 =>
                   flatten(r.errors) = << MessageOrDefault(accept, required) >>
         /\ ~isEmpty(r.params[accept.arg]) => ~RequiredRecorded(r.errors, accept.arg)

\* Validate was called with an empty email on a rule whose one validator is
\* required: true, and with a non-empty name on a rule with a required
\* function and a validator that fails.
C15_Witness ==
  /\ accepts = << Rule("email", << V("required", SpecTrue) >>),
                  Rule("name", << V("isLong", Fn("returns", <<"too short">>)),
                                  V("required", Fn("falsy", NoMessage)) >>) >>
  /\ \E k \in 1..Len(validations) :
       /\ validations[k].params = [email |-> "", name |-> "good"]
       /\ flatten(validations[k].errors) =
            << defaultMessage("email", "required"), <<"too short">> >>

\* C16: no Validate call throws: a validator that throws records nothing and
\* every validator behind it, of this parameter and of the next ones, is
\* still evaluated.
Evaluates(params, accept, e) ==
  IF isEmpty(params[accept.arg])
    THEN e.validatorName = "required" /\ e.spec.kind # "false"
    ELSE /\ e.validatorName # "required"
         /\ e.spec.kind = "fn" \/ e.validatorName \in LibraryValidators

Throws(params, accept, e) ==
  /\ Evaluates(params, accept, e)
  /\ \/ e.spec.kind = "fn" /\ e.spec.does = "throws"
     \/ e.spec.kind # "fn" /\ e.validatorName # "required"
          /\ libraryApply(e.validatorName, params[accept.arg]) = "throws"

C16_ValidatorThrowIsContained ==
  \A k \in 1..Len(validations) :
    LET r == validations[k]
    IN /\ ~r.threw
       /\ \A i \in 1..Len(accepts) : \A j \in 1..Len(accepts[i].validates) :
            LET accept == accepts[i]
                e == accept.validates[j]
            IN /\ Evaluates(r.params, accept, e) =>
                    \E n \in 1..Len(r.evaluated) :
                      r.evaluated[n] = <<accept.arg, e.validatorName>>
               /\ Throws(r.params, accept, e) =>
                    \A entry \in Range(EntriesOf(r.errors, accept.arg)) :
                      \A m \in 1..Len(entry.obj) :
                        entry.obj[m].validatorName # e.validatorName

\* C17: for the ValidationError a Validate call returns, asJSON() has one
\* entry for every parameter with a failing validator, in rule order, and no
\* other; flatten() is the messages of the failing (parameter, validator)
\* pairs, one each, by parameter in rule order and then by validator in the
\* order of the validates object.
RECURSIVE ConcatAll(_)
ConcatAll(seqs) == IF seqs = <<>> THEN <<>> ELSE Head(seqs) \o ConcatAll(Tail(seqs))

Failing(params, accept) ==
  SelectSeq(accept.validates, LAMBDA e : FailsOn(params, accept, e))

HandlerInvocations == { i \in 1..Len(log) : log[i].what = "method" }

BeforeChainFailed ==
  \E c \in ClosuresOf("before") :
    \E k \in 1..Len(closures[c].signals) : closures[c].signals[k] # NoErr

C21_HandlerAtMostOnce ==
  Dispatching =>
    /\ Cardinality(HandlerInvocations) <= 1
    /\ BeforeChainFailed => HandlerInvocations = {}

\* C22: for a parameter whose value is empty Validate evaluates no validator
\* other than required: a failure of that parameter is recorded under key
\* required only, and a rule without a required spec records nothing.
C22_EmptyValueOnlyRequired ==
  \A k \in 1..Len(validations), i \in 1..Len(accepts) :
    LET r == validations[k]
        accept == accepts[i]
        recorded == EntriesOf(r.errors, accept.arg)
    IN isEmpty(r.params[accept.arg]) =>
         /\ \A n \in 1..Len(r.evaluated) :
              r.evaluated[n][1] = accept.arg => r.evaluated[n][2] = "required"
         /\ \A e \in 1..Len(recorded) : \A m \in 1..Len(recorded[e].obj) :
              recorded[e].obj[m].validatorName = "required"
         /\ (\A j \in 1..Len(accept.validates) :
               accept.validates[j].validatorName # "required") => recorded = <<>>

\* Validate was called with an empty email on a rule with a required spec
\* and two validators that would reject it, and with an absent name on a
\* rule with a validator that would reject it and no required spec.
C22_Witness ==
  /\ accepts = << Rule("email", << V("isEmail", Opts(NoMessage)),
                                   V("isLong", Fn("returns", <<"too short">>)),
                                   V("required", Opts(NoMessage)) >>),
                  Rule("name", << V("isEmail", Opts(<<"not a valid name">>)) >>) >>
  /\ \E k \in 1..Len(validations) :
       /\ validations[k].params = [email |-> "", name |-> "undefined"]
       /\ validations[k].evaluated = << <<"email", "required">> >>
       /\ flatten(validations[k].errors) = << defaultMessage("email", "required") >>

\* C23: a Validate call leaves the rule list as it found it, and gives for a
\* parameter bag what every earlier call on the same rules gave for that bag,
\* whatever calls were made before.
C23_ValidateIsRepeatable ==
  [][ Len(validations') = Len(validations) + 1 =>
        LET r == validations'[Len(validations')]
        IN /\ accepts' = accepts
           /\ \A k \in 1..Len(validations) :
                /\ validations'[k] = validations[k]
                /\ validations[k].params = r.params => validations[k] = r ]_vars

\* Validate was called twice with the same bag, after a call with another
\* bag or none, and recorded a failure under key required both times.
C23_Witness ==
  /\ Len(validations) = 2
  /\ validations[1] = validations[2]
  /\ isEmpty(validations[2].params.email)
  /\ RequiredRecorded(validations[2].errors, "email")
  /\ \E i \in 1..Len(accepts) :
       accepts[i].arg = "email" /\ Len(accepts[i].validates) > 1

====
